---- MODULE Spec2Model ----
(***************************************************************************)
(* NHLScheduleAnalyzer (src/timezoner/script.py): the schedule cache, the  *)
(* fetcher and parser, the viewability evaluator, the team ranker and the  *)
(* timezone aggregator, with their thread pools.                           *)
(*                                                                         *)
(* Time: an instant is a number of minutes since Monday 00:00 UTC of day 0;*)
(* a date is a day number; a time of day is a number of minutes.           *)
(***************************************************************************)
EXTENDS Integers, Sequences, FiniteSets, TLC

\* ---------------------------------------------------------------- bounds
NumTeams == 2          \* roster teams taken from NHL_TEAMS, in its order
NumCallers == 2        \* direct callers of get_team_schedule_cached
MaxPool == 2           \* largest max_workers the analyzer is built with
NumRuns == 2           \* rank / aggregate calls made one after the other
MaxTopN == 3           \* largest top_n_teams
MaxTzActive == 1       \* timezone tasks the schedules explored keep active at once
MaxGames == 2          \* games of a schedule handed to the evaluator
MaxPayload == 2        \* game records of a payload handed to the parser

\* ------------------------------------------------------- program constants
TzFirst == -12
TzLast == 12
TzPoolCap == 8
MainTopN == 5
MainMaxWorkers == 12
current_date == 3

Min(a, b) == IF a <= b THEN a ELSE b
Max(a, b) == IF a >= b THEN a ELSE b

NHL_TEAMS ==
    << "NJD", "NYI", "NYR", "PHI", "PIT", "BOS", "BUF", "MTL", "OTT", "TOR",
       "FLA", "TBL", "CAR", "WSH", "CHI", "DET", "NSH", "STL", "CGY", "COL",
       "EDM", "VAN", "ANA", "DAL", "LAK", "SJS", "CBJ", "MIN", "WPG", "VGK",
       "SEA", "UTA" >>

team_list == SubSeq(NHL_TEAMS, 1, Min(NumTeams, Len(NHL_TEAMS)))
Teams == {team_list[i] : i \in 1..Len(team_list)}
TeamIndex(t) == CHOOSE i \in 1..Len(team_list) : team_list[i] = t

timezone_range_short == [i \in 1..(TzLast - TzFirst) |-> TzFirst + i - 1]

\* line 168: list(range(-12, 13))
timezone_range == [i \in 1..(TzLast - TzFirst + 1) |-> TzFirst + i - 1]

\* ------------------------------------------------------- viewing windows
HM(h, m) == h * 60 + m

WeekdayName == << "Monday", "Tuesday", "Wednesday", "Thursday", "Friday",
                  "Saturday", "Sunday" >>

VIEWING_WINDOWS_TIME ==
    [d \in {WeekdayName[i] : i \in 1..7} |->
        CASE d = "Friday"   -> << HM(15, 0), HM(23, 30) >>
          [] d = "Saturday" -> << HM(9, 0), HM(23, 30) >>
          [] d = "Sunday"   -> << HM(9, 0), HM(22, 0) >>
          [] OTHER          -> << HM(15, 0), HM(22, 30) >>]

\* ------------------------------------------------- payloads and responses
\* startTimeUTC is the ISO string "<date>T<hh>:<mm>:00Z" kept as its fields
\* << date, hh, mm >>; << >> is a missing or empty string.
Game(type, start) == [gameType |-> type, startTimeUTC |-> start]

\* json text: kind "malformed" is not JSON; an object may lack the games key
Text(kind, has_games, games) == [kind |-> kind, has_games |-> has_games, games |-> games]

EmptyText == Text("object", FALSE, << >>)          \* the literal "{}"
MalformedText == Text("malformed", FALSE, << >>)

\* Saturday of next week 21:00Z; Saturday 06:00Z; Monday 23:00Z; Tuesday 20:00Z
GameSatEve == Game(2, << 12, 21, 0 >>)
GameSatMorn == Game(2, << 12, 6, 0 >>)
GameMonNight == Game(2, << 7, 23, 0 >>)
GameTueEve == Game(2, << 8, 20, 0 >>)
GamePreseason == Game(1, << 9, 19, 0 >>)
GameBadTime == Game(2, << 9, 25, 0 >>)
GameNoTime == Game(2, << >>)
GameToday == Game(2, << 3, 19, 0 >>)

TextDense == Text("object", TRUE, << GameSatEve, GamePreseason, GameSatMorn >>)
TextMonday == Text("object", TRUE, << GameBadTime, GameMonNight >>)
TextTuesday == Text("object", TRUE, << GameToday, GameTueEve, GameNoTime >>)
TextPreseason == Text("object", TRUE, << GamePreseason >>)

\* what the remote API may answer to one request
ConnError == [status |-> 0, text |-> EmptyText]       \* timeout, connection error
Http(code, text) == [status |-> code, text |-> text]

\* --------------------------------------------------------------- parser
\* datetime.fromisoformat(start_time.replace('Z', '+00:00')): ValueError on a
\* field out of range
IsoParses(s) == Len(s) = 3 /\ s[1] >= 1 /\ s[2] \in 0..23 /\ s[3] \in 0..59
IsoInstant(s) == s[1] * 1440 + s[2] * 60 + s[3]
DateOf(instant) == instant \div 1440

ParseGameFromToday(parsed_games, game) ==
    IF game.gameType = 2 /\ game.startTimeUTC # << >>
       /\ IsoParses(game.startTimeUTC)
       /\ DateOf(IsoInstant(game.startTimeUTC)) >= current_date
    THEN Append(parsed_games,
                << IsoInstant(game.startTimeUTC), game.startTimeUTC[1] >>)
    ELSE parsed_games

\* lines 93-101: one iteration of the loop over games
ParseGame(parsed_games, game) ==
    IF game.gameType = 2 /\ game.startTimeUTC # << >>
       /\ IsoParses(game.startTimeUTC)
       /\ DateOf(IsoInstant(game.startTimeUTC)) > current_date
    THEN Append(parsed_games,
                << IsoInstant(game.startTimeUTC), game.startTimeUTC[1] >>)
    ELSE parsed_games

RECURSIVE ParseGames(_, _)
ParseGames(games, n) ==
    IF n = 0 THEN << >> ELSE ParseGame(ParseGames(games, n - 1), games[n])

\* lines 85-101 on a whole payload that json.loads accepts
ParseText(text) == ParseGames(text.games, Len(text.games))

\* ------------------------------------------------------------ evaluator
ViewableUtcWeekday(utc_datetime, timezone_offset) ==
    LET local_time == utc_datetime + timezone_offset * 60
        weekday == WeekdayName[(DateOf(utc_datetime) % 7) + 1]
        local_time_only == local_time % 1440
    IN  /\ weekday \in DOMAIN VIEWING_WINDOWS_TIME
        /\ VIEWING_WINDOWS_TIME[weekday][1] <= local_time_only
        /\ local_time_only <= VIEWING_WINDOWS_TIME[weekday][2]

\* lines 122-132: is the game inside the window of its local weekday
Viewable(utc_datetime, timezone_offset) ==
    LET local_time == utc_datetime + timezone_offset * 60
        weekday == WeekdayName[(DateOf(local_time) % 7) + 1]
        local_time_only == local_time % 1440
    IN  /\ weekday \in DOMAIN VIEWING_WINDOWS_TIME
        /\ VIEWING_WINDOWS_TIME[weekday][1] <= local_time_only
        /\ local_time_only <= VIEWING_WINDOWS_TIME[weekday][2]

RECURSIVE ViewableDates(_, _, _)
ViewableDates(schedule, n, timezone_offset) ==
    IF n = 0 THEN << >>
    ELSE LET rest == ViewableDates(schedule, n - 1, timezone_offset)
         IN  IF Viewable(schedule[n][1], timezone_offset)
             THEN Append(rest, schedule[n][2])
             ELSE rest

\* lines 116-134: (team, viewable_games, game_dates)
analyze_team_viewing_time(team, schedule, timezone_offset) ==
    LET game_dates == ViewableDates(schedule, Len(schedule), timezone_offset)
    IN  << team, Len(game_dates), game_dates >>

\* ---------------------------------------------------------------- sort
RECURSIVE InsertDescFirst(_, _)
InsertDescFirst(sorted, e) ==
    IF sorted = << >> THEN << e >>
    ELSE IF sorted[1][2] > e[2]
         THEN << sorted[1] >> \o InsertDescFirst(Tail(sorted), e)
         ELSE << e >> \o sorted

\* sorted(team_rankings, key=lambda x: x[1], reverse=True): stable, so an
\* entry goes after every entry whose count is not smaller
RECURSIVE InsertDesc(_, _)
InsertDesc(sorted, e) ==
    IF sorted = << >> THEN << e >>
    ELSE IF sorted[1][2] >= e[2]
         THEN << sorted[1] >> \o InsertDesc(Tail(sorted), e)
         ELSE << e >> \o sorted

Unsorted(team_rankings, n) == team_rankings

RECURSIVE SortedDesc(_, _)
SortedDesc(team_rankings, n) ==
    IF n = 0 THEN << >>
    ELSE InsertDesc(SortedDesc(team_rankings, n - 1), team_rankings[n])

TopTeamsAll(team_rankings, top_n_teams) ==
    [t \in {team_rankings[i][1] : i \in 1..Len(team_rankings)} |->
        LET i == CHOOSE j \in 1..Len(team_rankings) : team_rankings[j][1] = t
        IN  team_rankings[i][2]]

\* lines 172-176: the first min(top_n_teams, len) entries as team -> count
TopTeams(team_rankings, top_n_teams) ==
    LET k == Min(top_n_teams, Len(team_rankings))
    IN  [t \in {team_rankings[i][1] : i \in 1..k} |->
            LET i == CHOOSE j \in 1..k :
                       /\ team_rankings[j][1] = t
                       /\ \A l \in (j + 1)..k : team_rankings[l][1] # t
            IN  team_rankings[i][2]]

\* line 185: f"UTC{tz_offset:+d}"
timezone_key(tz_offset) ==
    "UTC" \o (IF tz_offset >= 0 THEN "+" ELSE "-")
          \o ToString(IF tz_offset >= 0 THEN tz_offset ELSE -tz_offset)

\* ------------------------------------------------------ presentation
\* int(): an optional sign, then decimal digits
DigitValue(c) ==
    CASE c = "0" -> 0 [] c = "1" -> 1 [] c = "2" -> 2 [] c = "3" -> 3
      [] c = "4" -> 4 [] c = "5" -> 5 [] c = "6" -> 6 [] c = "7" -> 7
      [] c = "8" -> 8 [] c = "9" -> 9

RECURSIVE ParseDigits(_, _)
ParseDigits(str, n) ==
    IF n = 0 THEN 0
    ELSE ParseDigits(str, n - 1) * 10 + DigitValue(SubSeq(str, n, n))

ParseIntUnsigned(str) ==
    IF SubSeq(str, 1, 1) \in {"-", "+"}
    THEN ParseDigits(SubSeq(str, 2, Len(str)), Len(str) - 1)
    ELSE ParseDigits(str, Len(str))

ParseInt(str) ==
    IF SubSeq(str, 1, 1) = "-"
    THEN 0 - ParseDigits(SubSeq(str, 2, Len(str)), Len(str) - 1)
    ELSE IF SubSeq(str, 1, 1) = "+"
         THEN ParseDigits(SubSeq(str, 2, Len(str)), Len(str) - 1)
         ELSE ParseDigits(str, Len(str))

\* lines 199-204
timezone_sort_key(timezone_str) ==
    IF Len(timezone_str) >= 3 /\ SubSeq(timezone_str, 1, 3) = "UTC"
    THEN ParseInt(SubSeq(timezone_str, 4, Len(timezone_str)))
    ELSE 0

\* line 206: sorted(analysis_data.keys(), key=timezone_sort_key) on the keys
\* in the dict's insertion order: a key stands after the keys with a smaller
\* sort key and after the earlier keys with the same sort key (stable)
SortedTimezones(keys) ==
    LET n == Len(keys)
        before(i) ==
            {j \in 1..n :
                \/ timezone_sort_key(keys[j]) < timezone_sort_key(keys[i])
                \/ timezone_sort_key(keys[j]) = timezone_sort_key(keys[i]) /\ j < i}
    IN  [p \in 1..n |-> keys[CHOOSE i \in 1..n : Cardinality(before(i)) = p - 1]]

\* ================================================================ state
VARIABLES
    cache,        \* self._cache: team -> parsed schedule, for the teams stored
    cache_lock,   \* self._cache_lock: the thread holding it, or NoThread
    lru,          \* lru_cache of fetch_api_data: team (its url) -> text returned
    remote,       \* the remote API: team -> the responses it may give
    requests,     \* per team, the session.get calls issued so far
    max_workers,  \* self.max_workers
    th,           \* threads: id -> program counter and locals
    rank,         \* calls of rank_teams_by_viewing_availability_parallel, by id
    agg           \* the caller: main / generate_timezone_analysis_parallel

vars == << cache, cache_lock, lru, remote, requests, max_workers, th, rank, agg >>

\* a thread is a task of a pool: "call" (a direct caller), "warm" (warm_cache)
\* or "rank" (a team task of rank call `key`)
Thread(pool, key, team) == [pool |-> pool, key |-> key, team |-> team]
NoThread == Thread("none", 0, "")
NoText == Text("none", FALSE, << >>)

NewThread(pc) ==
    [pc |-> pc, json_data |-> NoText, games |-> << >>, i |-> 0,
     parsed_games |-> << >>, ret |-> << >>, result |-> << >>]

\* a future is finished with a result ("returned", "done") or an exception
\* ("raised"); "joined" once its caller has consumed it, "cancelled" if
\* it never ran
Finished(w) == th[w].pc \in {"returned", "done", "raised"}
NotQueued(w) == th[w].pc # "queued"

\* the task occupies a worker of its pool
Running(w) == th[w].pc \notin {"queued", "returned", "done", "raised", "joined", "cancelled"}
SamePool(w) == {v \in DOMAIN th : v.pool = w.pool /\ v.key = w.key}

\* ThreadPoolExecutor(max_workers=self.max_workers), lines 147 and 219
PoolSize(w) == max_workers

\* --------------------------------------------- get_team_schedule_cached
\* what the thread does with the schedule the call returns: a team task of
\* the ranker evaluates it (line 114 on), the others are finished
Return(w, schedule) ==
    IF w.pool = "rank"
    THEN [th[w] EXCEPT !.pc = "done", !.ret = schedule,
            !.result = analyze_team_viewing_time(w.team, schedule,
                                                 rank[w.key].timezone_offset)]
    ELSE [th[w] EXCEPT !.pc = "returned", !.ret = schedule]

\* a pool worker takes the next task of its queue (submission order)
TaskStart(w) ==
    /\ th[w].pc = "queued"
    /\ Cardinality({v \in SamePool(w) : Running(v)}) < PoolSize(w)
    /\ \A v \in SamePool(w) :
          th[v].pc = "queued" => TeamIndex(w.team) <= TeamIndex(v.team)
    /\ th' = [th EXCEPT ![w].pc = "call"]
    /\ UNCHANGED << cache, cache_lock, lru, remote, requests, max_workers, rank, agg >>

\* line 79: with self._cache_lock
CheckAcquire(w) ==
    /\ th[w].pc = "call"
    /\ cache_lock = NoThread
    /\ cache_lock' = w
    /\ th' = [th EXCEPT ![w].pc = "locked_check"]
    /\ UNCHANGED << cache, lru, remote, requests, max_workers, rank, agg >>

\* lines 80-81: the presence check, leaving the with block
CheckHit(w) ==
    /\ th[w].pc = "locked_check"
    /\ w.team \in DOMAIN cache
    /\ cache_lock' = NoThread
    /\ th' = [th EXCEPT ![w] = Return(w, cache[w.team])]
    /\ UNCHANGED << cache, lru, remote, requests, max_workers, rank, agg >>

CheckMissHolding(w) ==
    /\ th[w].pc = "locked_check"
    /\ w.team \notin DOMAIN cache
    /\ th' = [th EXCEPT ![w].pc = "fetch"]
    /\ UNCHANGED << cache, cache_lock, lru, remote, requests, max_workers, rank, agg >>

\* lines 80 and 83: the team is absent, the with block is left
CheckMiss(w) ==
    /\ th[w].pc = "locked_check"
    /\ w.team \notin DOMAIN cache
    /\ cache_lock' = NoThread
    /\ th' = [th EXCEPT ![w].pc = "fetch"]
    /\ UNCHANGED << cache, lru, remote, requests, max_workers, rank, agg >>

\* lines 85-88: json.loads raises on text that is not JSON; otherwise the
\* games list, [] when the key is missing
Loaded(w, json_data) ==
    IF json_data.kind # "object"
    THEN [th[w] EXCEPT !.pc = "raised", !.json_data = json_data]
    ELSE [th[w] EXCEPT !.pc = "loop", !.json_data = json_data,
            !.games = IF json_data.has_games THEN json_data.games ELSE << >>,
            !.i = 1, !.parsed_games = << >>]

\* line 84 through lru_cache, the url already memoised
FetchMemoised(w) ==
    /\ th[w].pc = "fetch"
    /\ w.team \in DOMAIN lru
    /\ th' = [th EXCEPT ![w] = Loaded(w, lru[w.team])]
    /\ UNCHANGED << cache, cache_lock, lru, remote, requests, max_workers, rank, agg >>

\* line 84 through lru_cache, a miss: line 67 sends the request
FetchRequest(w) ==
    /\ th[w].pc = "fetch"
    /\ w.team \notin DOMAIN lru
    /\ requests' = [requests EXCEPT ![w.team] = @ + 1]
    /\ th' = [th EXCEPT ![w].pc = "inflight"]
    /\ UNCHANGED << cache, cache_lock, lru, remote, max_workers, rank, agg >>

\* lines 67-72: the text of a 2xx response, "{}" on a RequestException
\* (no response, or raise_for_status on another status)
ResponseText(response) ==
    IF response.status \in 200..299 THEN response.text ELSE EmptyText

\* lru_cache keeps the first value stored for a key; every caller gets the
\* value its own call computed
Memoise(team, text) ==
    IF team \in DOMAIN lru THEN lru
    ELSE [u \in DOMAIN lru \cup {team} |-> IF u = team THEN text ELSE lru[u]]

FetchResponse(w, response) ==
    /\ th[w].pc = "inflight"
    /\ response \in remote[w.team]
    /\ lru' = Memoise(w.team, ResponseText(response))
    /\ th' = [th EXCEPT ![w] = Loaded(w, ResponseText(response))]
    /\ UNCHANGED << cache, cache_lock, remote, requests, max_workers, rank, agg >>

\* lines 91-101: one game of the loop
LoopDoneEarly(w) == TRUE

\* the for statement is exhausted
LoopDone(w) == th[w].i > Len(th[w].games)

ParseStep(w) ==
    /\ th[w].pc = "loop"
    /\ th[w].i <= Len(th[w].games)
    /\ th' = [th EXCEPT ![w].parsed_games = ParseGame(@, th[w].games[th[w].i]),
                        ![w].i = @ + 1]
    /\ UNCHANGED << cache, cache_lock, lru, remote, requests, max_workers, rank, agg >>

\* line 104: with self._cache_lock, after the loop
StoreAcquire(w) ==
    /\ th[w].pc = "loop"
    /\ LoopDone(w)
    /\ cache_lock = NoThread
    /\ cache_lock' = w
    /\ th' = [th EXCEPT ![w].pc = "locked_store"]
    /\ UNCHANGED << cache, lru, remote, requests, max_workers, rank, agg >>

\* line 105: self._cache[team] = parsed_games
Stored(team, parsed_games) ==
    [u \in DOMAIN cache \cup {team} |-> IF u = team THEN parsed_games ELSE cache[u]]

\* lines 105-107
Store(w) ==
    /\ th[w].pc = "locked_store"
    /\ cache' = Stored(w.team, th[w].parsed_games)
    /\ cache_lock' = NoThread
    /\ th' = [th EXCEPT ![w] = Return(w, th[w].parsed_games)]
    /\ UNCHANGED << lru, remote, requests, max_workers, rank, agg >>

\* ------------------------------------------------------- the environment
TextTwoMondays == Text("object", TRUE, << GameMonNight, Game(2, << 14, 23, 0 >>) >>)

Texts ==
    {EmptyText, MalformedText, TextDense, TextMonday, TextTuesday, TextPreseason,
     TextTwoMondays}
Responses == {ConnError} \cup {Http(500, EmptyText)} \cup {Http(200, t) : t \in Texts}

\* a remote API that may fail, deliver text that is not JSON, or a schedule
AnyRemote ==
    [t \in Teams |-> {ConnError, Http(200, MalformedText),
                      Http(200, TextMonday), Http(200, TextDense)}]

\* the texts fetch_api_data may return for a team that json.loads accepts
PayloadsOf(api, t) ==
    {text \in {ResponseText(r) : r \in api[t]} : text.kind = "object"}

NoRank == [id \in {} |-> 0]
NoThreads == [w \in {} |-> 0]
ColdCache == [t \in {} |-> << >>]
NoBoard == [k \in {} |-> 0]

\* the thread that owns the analyzer: what it is doing, the arguments of
\* its call and what its calls have returned so far; timezone_keys is the
\* insertion order of the dict timezone_analysis
\* (returned: per finished call, its result and the cache it started on)
Caller(entry, pc, top_n_teams, timezone_offset) ==
    [entry |-> entry, pc |-> pc, top_n_teams |-> top_n_teams,
     timezone_offset |-> timezone_offset, next |-> 1,
     timezone_analysis |-> NoBoard, snapshot |-> ColdCache, returned |-> << >>,
     timezone_keys |-> << >>, sorted_timezones |-> << >>]

Returned(result) == Append(agg.returned, [result |-> result, snapshot |-> agg.snapshot])

\* ------------------------- rank_teams_by_viewing_availability_parallel
\* a call in progress: team_rankings as appended so far, the teams whose
\* exception was printed, and after the return the sorted ranking
RankFrame(owner, timezone_offset) ==
    [pc |-> "collect", owner |-> owner, timezone_offset |-> timezone_offset,
     team_rankings |-> << >>, reported |-> {}, ranking |-> << >>,
     team_data |-> NoBoard]

TeamTasks(id) == {Thread("rank", id, t) : t \in Teams}

WithFrame(id, frame) ==
    [k \in DOMAIN rank \cup {id} |-> IF k = id THEN frame ELSE rank[k]]

WithThreads(tasks) ==
    [w \in DOMAIN th \cup tasks |-> IF w \in tasks THEN NewThread("queued") ELSE th[w]]

WithoutThreads(tasks) == [w \in DOMAIN th \ tasks |-> th[w]]

\* lines 144-149: the pool is created and every team submitted
Submit(id, owner, timezone_offset) ==
    /\ rank' = WithFrame(id, RankFrame(owner, timezone_offset))
    /\ th' = WithThreads(TeamTasks(id))

CollectNonZero(id, w) ==
    /\ id \in DOMAIN rank /\ rank[id].pc = "collect"
    /\ w \in TeamTasks(id) /\ th[w].pc = "done"
    /\ rank' = [rank EXCEPT ![id].team_rankings =
                    IF th[w].result[2] = 0 THEN @ ELSE Append(@, th[w].result)]
    /\ th' = [th EXCEPT ![w].pc = "joined"]
    /\ UNCHANGED << cache, cache_lock, lru, remote, requests, max_workers, agg >>

\* lines 152-155: as_completed hands over a finished future, its result is
\* appended
CollectResult(id, w) ==
    /\ id \in DOMAIN rank /\ rank[id].pc = "collect"
    /\ w \in TeamTasks(id) /\ th[w].pc = "done"
    /\ rank' = [rank EXCEPT ![id].team_rankings = Append(@, th[w].result)]
    /\ th' = [th EXCEPT ![w].pc = "joined"]
    /\ UNCHANGED << cache, cache_lock, lru, remote, requests, max_workers, agg >>

\* lines 156-158: future.result() raised, the team is printed
CollectException(id, w) ==
    /\ id \in DOMAIN rank /\ rank[id].pc = "collect"
    /\ w \in TeamTasks(id) /\ th[w].pc = "raised"
    /\ rank' = [rank EXCEPT ![id].reported = @ \cup {w.team}]
    /\ th' = [th EXCEPT ![w].pc = "joined"]
    /\ UNCHANGED << cache, cache_lock, lru, remote, requests, max_workers, agg >>

AllCollectedOrRaised(id) ==
    \/ \A w \in TeamTasks(id) : th[w].pc = "joined"
    \/ rank[id].reported # {}

\* as_completed is exhausted
AllCollected(id) == \A w \in TeamTasks(id) : th[w].pc = "joined"

\* lines 160-161, and for a timezone task lines 172-176 after it
Ranked(id) ==
    LET ranking == SortedDesc(rank[id].team_rankings, Len(rank[id].team_rankings))
    IN  [rank[id] EXCEPT !.pc = "returned", !.ranking = ranking,
            !.team_data = IF rank[id].owner = "tz"
                          THEN TopTeams(ranking, agg.top_n_teams)
                          ELSE NoBoard]

RankReturn(id) ==
    /\ id \in DOMAIN rank /\ rank[id].pc = "collect"
    /\ AllCollected(id)
    /\ rank' = [rank EXCEPT ![id] = Ranked(id)]
    /\ th' = WithoutThreads(TeamTasks(id))
    /\ agg' = IF rank[id].owner = "tz" THEN agg
              ELSE [agg EXCEPT !.returned = Returned(Ranked(id).ranking)]
    /\ UNCHANGED << cache, cache_lock, lru, remote, requests, max_workers >>

\* ===================================================== concurrent callers
\* NumCallers threads, each making one call of get_team_schedule_cached
\* on a fresh analyzer
InitCallers ==
    /\ cache = ColdCache
    /\ cache_lock = NoThread
    /\ lru = [t \in {} |-> NoText]
    /\ remote = AnyRemote
    /\ requests = [t \in Teams |-> 0]
    /\ max_workers = MaxPool
    /\ \E team \in [1..NumCallers -> Teams] :
          th = [w \in {Thread("call", c, team[c]) : c \in 1..NumCallers} |->
                   NewThread("call")]
    /\ rank = NoRank
    /\ agg = Caller("calls", "calls", 0, 0)

NextCallers ==
    \/ \E w \in DOMAIN th : CheckAcquire(w)
    \/ \E w \in DOMAIN th : CheckHit(w)
    \/ \E w \in DOMAIN th : CheckMiss(w)
    \/ \E w \in DOMAIN th : FetchMemoised(w)
    \/ \E w \in DOMAIN th : FetchRequest(w)
    \/ \E w \in DOMAIN th : \E response \in Responses : FetchResponse(w, response)
    \/ \E w \in DOMAIN th : ParseStep(w)
    \/ \E w \in DOMAIN th : StoreAcquire(w)
    \/ \E w \in DOMAIN th : Store(w)

SpecCallers == InitCallers /\ [][NextCallers]_vars

\* NumCallers threads, each making one call of get_team_schedule_cached
\* on an analyzer that has already served a call for the first team
InitCallersWarm ==
    /\ cache = [t \in {team_list[1]} |-> ParseText(TextDense)]
    /\ cache_lock = NoThread
    /\ lru = [t \in {team_list[1]} |-> TextDense]
    /\ remote = AnyRemote
    /\ requests = [t \in Teams |-> IF t = team_list[1] THEN 1 ELSE 0]
    /\ max_workers = MaxPool
    /\ \E team \in [1..NumCallers -> Teams] :
          th = [w \in {Thread("call", c, team[c]) : c \in 1..NumCallers} |->
                   NewThread("call")]
    /\ rank = NoRank
    /\ agg = Caller("calls", "calls", 0, 0)

SpecCallersWarm == InitCallersWarm /\ [][NextCallers]_vars

\* ============================================================ rank calls
\* NumRuns calls of rank_teams_by_viewing_availability_parallel with one
\* offset, one after the other, on an analyzer whose cache is cold or was
\* filled by warm_cache
RankOffsets == {-7, TzLast}

WarmCaches == [Teams -> {ParseText(text) : text \in {EmptyText, TextDense, TextMonday}}]

InitRank ==
    /\ cache \in {ColdCache} \cup WarmCaches
    /\ cache_lock = NoThread
    /\ lru = [t \in {} |-> NoText]
    /\ remote = AnyRemote
    /\ requests = [t \in Teams |-> 0]
    /\ max_workers \in {1, MaxPool}
    /\ th = NoThreads
    /\ rank = NoRank
    /\ \E timezone_offset \in RankOffsets : agg = Caller("rank", "ranks", 0, timezone_offset)

\* line 136: the next call, once the one before has returned
RankCall ==
    /\ agg.pc = "ranks"
    /\ Len(agg.returned) < NumRuns
    /\ \A id \in DOMAIN rank : rank[id].pc = "returned"
    /\ Submit(Len(agg.returned) + 1, "caller", agg.timezone_offset)
    /\ agg' = [agg EXCEPT !.snapshot = cache]
    /\ UNCHANGED << cache, cache_lock, lru, remote, requests, max_workers >>

NextRank ==
    \/ RankCall
    \/ \E w \in DOMAIN th : TaskStart(w)
    \/ \E w \in DOMAIN th : CheckAcquire(w)
    \/ \E w \in DOMAIN th : CheckHit(w)
    \/ \E w \in DOMAIN th : CheckMiss(w)
    \/ \E w \in DOMAIN th : FetchMemoised(w)
    \/ \E w \in DOMAIN th : FetchRequest(w)
    \/ \E w \in DOMAIN th : \E response \in Responses : FetchResponse(w, response)
    \/ \E w \in DOMAIN th : ParseStep(w)
    \/ \E w \in DOMAIN th : StoreAcquire(w)
    \/ \E w \in DOMAIN th : Store(w)
    \/ \E id \in DOMAIN rank : \E w \in DOMAIN th : CollectResult(id, w)
    \/ \E id \in DOMAIN rank : \E w \in DOMAIN th : CollectException(id, w)
    \/ \E id \in DOMAIN rank : RankReturn(id)

SpecRank == InitRank /\ [][NextRank]_vars

\* ===================================================== main and generate
\* ------------------------------------------------------------ warm_cache
WarmTasks == {Thread("warm", 0, t) : t \in Teams}

\* lines 219-220: every team is submitted to the pool
WarmCache ==
    /\ agg.pc = "main"
    /\ agg' = [agg EXCEPT !.pc = "warming"]
    /\ th' = WithThreads(WarmTasks)
    /\ UNCHANGED << cache, cache_lock, lru, remote, requests, max_workers, rank >>

\* line 220: list(executor.map(...)) takes the results in submission order
Earlier(w) == {v \in WarmTasks : TeamIndex(v.team) < TeamIndex(w.team)}

SomeWarmed == \E w \in WarmTasks : th[w].pc = "returned"

\* list() has taken the result of every task
AllWarmed == \A w \in WarmTasks : th[w].pc = "returned"

\* every result was taken: warm_cache returns, and main (line 230) calls
\* generate_timezone_analysis_parallel
WarmReturn ==
    /\ agg.pc = "warming"
    /\ AllWarmed
    /\ agg' = [agg EXCEPT !.pc = "timezones", !.next = 1,
                          !.timezone_analysis = NoBoard, !.timezone_keys = << >>,
                          !.snapshot = cache]
    /\ th' = WithoutThreads(WarmTasks)
    /\ UNCHANGED << cache, cache_lock, lru, remote, requests, max_workers, rank >>

\* a result raises: the iterator cancels the futures not yet started and
\* the pool's shutdown waits for the running ones
WarmRaise(w) ==
    /\ agg.pc = "warming"
    /\ w \in WarmTasks /\ th[w].pc = "raised"
    /\ \A v \in Earlier(w) : th[v].pc = "returned"
    /\ agg' = [agg EXCEPT !.pc = "warm_raising"]
    /\ th' = [v \in DOMAIN th |->
                IF th[v].pc = "queued" THEN [th[v] EXCEPT !.pc = "cancelled"] ELSE th[v]]
    /\ UNCHANGED << cache, cache_lock, lru, remote, requests, max_workers, rank >>

\* the exception leaves warm_cache and main (lines 228, 239)
WarmAbort ==
    /\ agg.pc = "warm_raising"
    /\ \A w \in WarmTasks : ~Running(w)
    /\ agg' = [agg EXCEPT !.pc = "aborted"]
    /\ th' = WithoutThreads(WarmTasks)
    /\ UNCHANGED << cache, cache_lock, lru, remote, requests, max_workers, rank >>

\* ------------------------------------ generate_timezone_analysis_parallel
\* line 179: ThreadPoolExecutor(max_workers=min(8, len(timezone_range)))
TzPoolSize == Min(TzPoolCap, Len(timezone_range))

\* lines 167-180, called on its own
GenerateCall ==
    /\ agg.entry = "generate" /\ agg.pc = "idle"
    /\ Len(agg.returned) < NumRuns
    /\ agg' = [agg EXCEPT !.pc = "timezones", !.next = 1,
                          !.timezone_analysis = NoBoard, !.timezone_keys = << >>,
                          !.snapshot = cache]
    /\ UNCHANGED << cache, cache_lock, lru, remote, requests, max_workers, th, rank >>

\* a pool worker takes the next timezone (submission order): line 171
TzStart ==
    /\ agg.pc = "timezones"
    /\ agg.next <= Len(timezone_range)
    /\ Cardinality(DOMAIN rank) < Min(TzPoolSize, MaxTzActive)
    /\ Submit(timezone_range[agg.next], "tz", timezone_range[agg.next])
    /\ agg' = [agg EXCEPT !.next = @ + 1]
    /\ UNCHANGED << cache, cache_lock, lru, remote, requests, max_workers >>

\* lines 182-186: a finished timezone task is entered under its key
Entered(timezone_analysis, tz_offset, team_data) ==
    [k \in DOMAIN timezone_analysis \cup {timezone_key(tz_offset)} |->
        IF k = timezone_key(tz_offset) THEN team_data ELSE timezone_analysis[k]]

TzCollect(id) ==
    /\ agg.pc = "timezones"
    /\ id \in DOMAIN rank /\ rank[id].pc = "returned" /\ rank[id].owner = "tz"
    /\ agg' = [agg EXCEPT !.timezone_analysis =
                    Entered(@, rank[id].timezone_offset, rank[id].team_data),
                          !.timezone_keys =
                    IF timezone_key(rank[id].timezone_offset) \in DOMAIN agg.timezone_analysis
                    THEN @ ELSE Append(@, timezone_key(rank[id].timezone_offset))]
    /\ rank' = [k \in DOMAIN rank \ {id} |-> rank[k]]
    /\ UNCHANGED << cache, cache_lock, lru, remote, requests, max_workers, th >>

\* line 191
GenerateReturn ==
    /\ agg.pc = "timezones"
    /\ agg.next > Len(timezone_range)
    /\ DOMAIN rank = {}
    /\ agg' = [agg EXCEPT !.pc = IF agg.entry = "main" THEN "done" ELSE "idle",
                          !.returned = Returned(agg.timezone_analysis)]
    /\ UNCHANGED << cache, cache_lock, lru, remote, requests, max_workers, th, rank >>

\* line 233: main prints the summary of the leaderboard returned
PrintSummary ==
    /\ agg.entry = "main" /\ agg.pc = "done"
    /\ agg' = [agg EXCEPT !.pc = "printed",
                          !.sorted_timezones =
                              SortedTimezones(agg.timezone_keys)]
    /\ UNCHANGED << cache, cache_lock, lru, remote, requests, max_workers, th, rank >>

\* main(): NHLScheduleAnalyzer(max_workers=12), warm_cache, then
\* generate_timezone_analysis_parallel(top_n_teams=5)
InitMain ==
    /\ cache = ColdCache
    /\ cache_lock = NoThread
    /\ lru = [t \in {} |-> NoText]
    /\ remote = AnyRemote
    /\ requests = [t \in Teams |-> 0]
    /\ max_workers = MainMaxWorkers
    /\ th = NoThreads
    /\ rank = NoRank
    /\ agg = Caller("main", "main", MainTopN, 0)

\* a payload with k - 1 copies of the games of TextDense
RECURSIVE DenseGames(_)
DenseGames(k) == IF k <= 1 THEN << >> ELSE DenseGames(k - 1) \o TextDense.games

\* the schedules of direct calls: the first team's requests may fail, the
\* k-th team has k - 1 games or more in every timezone
FirstTeamFails ==
    [t \in Teams |->
        IF TeamIndex(t) = 1
        THEN {ConnError, Http(200, MalformedText), Http(200, TextTwoMondays)}
        ELSE {Http(200, Text("object", TRUE, DenseGames(TeamIndex(t))))}]

\* the caches warm_cache can leave behind with that remote API
FirstTeamFailsCaches ==
    {[t \in Teams |-> ParseText(text[t])] :
        text \in {f \in [Teams -> UNION {PayloadsOf(FirstTeamFails, t) : t \in Teams}] :
                    \A t \in Teams : f[t] \in PayloadsOf(FirstTeamFails, t)}}

\* NumRuns calls of generate_timezone_analysis_parallel(top_n_teams), one
\* after the other, on an analyzer whose cache is cold or was filled by
\* warm_cache
InitGenerate ==
    /\ cache \in {ColdCache} \cup FirstTeamFailsCaches
    /\ cache_lock = NoThread
    /\ lru = [t \in {} |-> NoText]
    /\ remote = FirstTeamFails
    /\ requests = [t \in Teams |-> 0]
    /\ max_workers \in {1, MaxPool}
    /\ th = NoThreads
    /\ rank = NoRank
    /\ \E top_n_teams \in -1..MaxTopN : agg = Caller("generate", "idle", top_n_teams, 0)

Init == InitMain \/ InitGenerate

Next ==
    \/ WarmCache
    \/ WarmReturn
    \/ \E w \in DOMAIN th : WarmRaise(w)
    \/ WarmAbort
    \/ GenerateCall
    \/ TzStart
    \/ \E w \in DOMAIN th : TaskStart(w)
    \/ \E w \in DOMAIN th : CheckAcquire(w)
    \/ \E w \in DOMAIN th : CheckHit(w)
    \/ \E w \in DOMAIN th : CheckMiss(w)
    \/ \E w \in DOMAIN th : FetchMemoised(w)
    \/ \E w \in DOMAIN th : FetchRequest(w)
    \/ \E w \in DOMAIN th : \E response \in Responses : FetchResponse(w, response)
    \/ \E w \in DOMAIN th : ParseStep(w)
    \/ \E w \in DOMAIN th : StoreAcquire(w)
    \/ \E w \in DOMAIN th : Store(w)
    \/ \E id \in DOMAIN rank : \E w \in DOMAIN th : CollectResult(id, w)
    \/ \E id \in DOMAIN rank : \E w \in DOMAIN th : CollectException(id, w)
    \/ \E id \in DOMAIN rank : RankReturn(id)
    \/ \E id \in DOMAIN rank : TzCollect(id)
    \/ GenerateReturn
    \/ PrintSummary

Spec == Init /\ [][Next]_vars

\* the scheduler runs some runnable thread, and session.get(url, timeout=10)
\* (line 67) returns or raises: a step that can be taken is eventually taken
SpecLive == Init /\ [][Next]_vars /\ WF_vars(Next)

\* ================================================================ parser
\* one call of get_team_schedule_cached on a fresh analyzer, the API
\* answering with a payload of up to MaxPayload game records of every kind:
\* kept, preseason, playoff, start time out of range or missing, today,
\* yesterday
GameYesterday == Game(2, << 2, 19, 0 >>)
GamePlayoff == Game(3, << 12, 19, 0 >>)

ParseRecords ==
    {GameSatEve, GameMonNight, GamePreseason, GamePlayoff, GameBadTime,
     GameNoTime, GameToday, GameYesterday}

ParseResponses ==
    {Http(200, Text("object", TRUE, games)) :
        games \in UNION {[1..n -> ParseRecords] : n \in 0..MaxPayload}}

InitParse ==
    /\ cache = ColdCache
    /\ cache_lock = NoThread
    /\ lru = [t \in {} |-> NoText]
    /\ remote = [t \in Teams |-> ParseResponses]
    /\ requests = [t \in Teams |-> 0]
    /\ max_workers = MaxPool
    /\ \E team \in Teams : th = [w \in {Thread("call", 1, team)} |-> NewThread("call")]
    /\ rank = NoRank
    /\ agg = Caller("calls", "calls", 0, 0)

NextParse ==
    \/ \E w \in DOMAIN th : CheckAcquire(w)
    \/ \E w \in DOMAIN th : CheckMiss(w)
    \/ \E w \in DOMAIN th : FetchRequest(w)
    \/ \E w \in DOMAIN th : \E response \in ParseResponses : FetchResponse(w, response)
    \/ \E w \in DOMAIN th : ParseStep(w)
    \/ \E w \in DOMAIN th : StoreAcquire(w)
    \/ \E w \in DOMAIN th : Store(w)

SpecParse == InitParse /\ [][NextParse]_vars

\* ============================================================= evaluator
\* calls of analyze_team_viewing_time(team, timezone_offset) for a team whose
\* schedule is in the cache, with every offset of the aggregator
\* Monday 02:00Z, Sunday 02:00Z, Friday 23:00Z, Thursday 22:30Z and 22:31Z
GameMonEarly == Game(2, << 7, 2, 0 >>)
GameSunEarly == Game(2, << 13, 2, 0 >>)
GameFriNight == Game(2, << 11, 23, 0 >>)
GameThuLast == Game(2, << 10, 22, 30 >>)
GameThuLate == Game(2, << 10, 22, 31 >>)

EvalGames ==
    {GameMonEarly, GameSunEarly, GameFriNight, GameThuLast, GameThuLate,
     GameMonNight, GameSatMorn}

\* the schedules get_team_schedule_cached stores for payloads of these games
EvalSchedules ==
    {ParseText(Text("object", TRUE, games)) :
        games \in UNION {[1..n -> EvalGames] : n \in 0..MaxGames}}

InitEval ==
    /\ \E team \in Teams : \E schedule \in EvalSchedules :
          cache = [t \in {team} |-> schedule]
    /\ cache_lock = NoThread
    /\ lru = [t \in {} |-> NoText]
    /\ remote = AnyRemote
    /\ requests = [t \in Teams |-> 0]
    /\ max_workers = MaxPool
    /\ th = NoThreads
    /\ rank = NoRank
    /\ agg = Caller("eval", "eval", 0, 0)

\* lines 109-134: line 114 finds the team in the cache (lines 79-81), then
\* the loop over its schedule; the caller keeps the tuple returned
Analyze(team, timezone_offset) ==
    /\ agg.pc = "eval"
    /\ cache_lock = NoThread
    /\ team \in DOMAIN cache
    /\ agg' = [agg EXCEPT !.timezone_offset = timezone_offset,
                          !.snapshot = cache,
                          !.returned = << [result |->
                                analyze_team_viewing_time(team, cache[team], timezone_offset),
                              snapshot |-> cache] >>]
    /\ UNCHANGED << cache, cache_lock, lru, remote, requests, max_workers, th, rank >>

NextEval ==
    \E team \in Teams : \E i \in 1..Len(timezone_range) :
        Analyze(team, timezone_range[i])

SpecEval == InitEval /\ [][NextEval]_vars

\* ================================================================ claims
\* the failure marker "{}" of fetch_api_data, or a payload json.loads rejects
FetchFailed(w) == th[w].json_data = EmptyText \/ th[w].json_data.kind = "malformed"

\* C1: for every team, the remote fetch is triggered at most once in the
\* whole run, whatever the interleaving of the callers
C1_FetchAtMostOnce == \A t \in Teams : requests[t] <= 1

\* C4: all calls of get_team_schedule_cached for one team return the same
\* schedule, for every interleaving and every sequence of answers
C4_SameScheduleReturned ==
    \A w, v \in DOMAIN th :
        (w.pool = "call" /\ v.pool = "call" /\ w.team = v.team
            /\ th[w].pc = "returned" /\ th[v].pc = "returned")
        => th[w].ret = th[v].ret

\* C6: when the fetch for a team fails (network error or malformed
\* payload) the call stores and returns the empty schedule, and from then
\* on no request is sent for that team
C6_FailureStoresEmpty ==
    [][/\ \A w \in DOMAIN th' :
            (w.pool = "call" /\ th'[w].pc \in {"returned", "raised"}
                /\ (th'[w].json_data = EmptyText \/ th'[w].json_data.kind = "malformed"))
            => /\ th'[w].pc = "returned"
               /\ th'[w].ret = << >>
               /\ w.team \in DOMAIN cache'
       /\ \A w \in DOMAIN th :
            (w.pool = "call" /\ Finished(w) /\ FetchFailed(w))
            => requests'[w.team] = requests[w.team]]_vars

\* C7: once the cache holds an entry for a team, the entry is never
\* replaced or altered
C7_EntryNeverReplaced ==
    [][\A t \in DOMAIN cache : t \in DOMAIN cache' /\ cache'[t] = cache[t]]_vars

\* C8: a schedule visible in the cache is the complete result of parsing
\* one payload, never a schedule still being built
C8_CacheHoldsCompleteParse ==
    \A t \in DOMAIN cache : \E text \in PayloadsOf(remote, t) : cache[t] = ParseText(text)

\* the cache shows a two-game schedule for a team while another caller of
\* that team is inside its parsing loop with one game retained so far
C8_Witness ==
    \E v \in DOMAIN th :
        /\ v.team \in DOMAIN cache
        /\ Len(cache[v.team]) = 2
        /\ th[v].pc = "loop" /\ th[v].i <= Len(th[v].games)
        /\ Len(th[v].parsed_games) = 1

\* C2: on a fixed schedule snapshot and a fixed offset, every call of
\* rank_teams_by_viewing_availability_parallel returns the same ordered
\* ranking, whatever the completion order of the team tasks
C2_RankingDeterministic ==
    \A i, j \in 1..Len(agg.returned) :
        (agg.entry = "rank"
            /\ agg.returned[i].snapshot = agg.returned[j].snapshot
            /\ DOMAIN agg.returned[i].snapshot = Teams)
        => agg.returned[i].result = agg.returned[j].result

\* C3: on fixed schedules and a fixed top_n, every call of
\* generate_timezone_analysis_parallel returns the same mapping
\* label -> (team -> count), whatever the completion orders
C3_LeaderboardDeterministic ==
    \A i, j \in 1..Len(agg.returned) :
        (agg.entry = "generate"
            /\ agg.returned[i].snapshot = agg.returned[j].snapshot
            /\ DOMAIN agg.returned[i].snapshot = Teams)
        => agg.returned[i].result = agg.returned[j].result

\* C5: whatever failures occur, a run of main (warm_cache, then the
\* aggregator) never aborts
C5_RunNeverAborts == agg.entry = "main" => agg.pc # "aborted"

\* the ranking of a finished call names every team at most once
RankedTeams(ranking) == {ranking[i][1] : i \in 1..Len(ranking)}
NoDuplicates(ranking) ==
    \A i, j \in 1..Len(ranking) : ranking[i][1] = ranking[j][1] => i = j

\* C9: when a team's evaluation raised inside the ranker, the call has
\* still returned, and its ranking holds exactly one entry for each of the
\* other roster teams
C9_FailureKeepsSiblings ==
    \A id \in DOMAIN rank :
        /\ (rank[id].pc = "returned" /\ rank[id].reported # {})
            => /\ RankedTeams(rank[id].ranking) = Teams \ rank[id].reported
               /\ NoDuplicates(rank[id].ranking)
        /\ (rank[id].pc = "collect" /\ AllCollected(id)) => ENABLED RankReturn(id)

\* a call returned a ranking of the other teams after one evaluation raised
C9_Witness ==
    \E id \in DOMAIN rank :
        /\ rank[id].pc = "returned"
        /\ Cardinality(rank[id].reported) = 1
        /\ Len(rank[id].ranking) = NumTeams - 1
        /\ Len(rank[id].ranking) >= 1

\* the 25 labels UTC-12 .. UTC+12
UTCLabels ==
    {"UTC-12", "UTC-11", "UTC-10", "UTC-9", "UTC-8", "UTC-7", "UTC-6", "UTC-5",
     "UTC-4", "UTC-3", "UTC-2", "UTC-1", "UTC+0", "UTC+1", "UTC+2", "UTC+3",
     "UTC+4", "UTC+5", "UTC+6", "UTC+7", "UTC+8", "UTC+9", "UTC+10", "UTC+11",
     "UTC+12"}

Leaderboards ==
    IF agg.entry \in {"main", "generate"}
    THEN {agg.returned[i].result : i \in 1..Len(agg.returned)}
    ELSE {}

LocalDay(utc_datetime, timezone_offset) ==
    LET minutes == (utc_datetime % 1440) + 60 * timezone_offset
    IN  IF minutes < 0 THEN (utc_datetime \div 1440) - 1
        ELSE IF minutes >= 1440 THEN (utc_datetime \div 1440) + 1
        ELSE utc_datetime \div 1440

LocalTimeOfDay(utc_datetime, timezone_offset) ==
    LET minutes == (utc_datetime % 1440) + 60 * timezone_offset
    IN  IF minutes < 0 THEN minutes + 1440
        ELSE IF minutes >= 1440 THEN minutes - 1440
        ELSE minutes

InLocalWindow(utc_datetime, timezone_offset) ==
    LET window == VIEWING_WINDOWS_TIME[
                    WeekdayName[(LocalDay(utc_datetime, timezone_offset) % 7) + 1]]
        time_of_day == LocalTimeOfDay(utc_datetime, timezone_offset)
    IN  window[1] <= time_of_day /\ time_of_day <= window[2]

Evaluations ==
    IF agg.entry = "eval"
    THEN {agg.returned[i] : i \in 1..Len(agg.returned)}
    ELSE {}

\* C11: analyze_team_viewing_time returns as viewable_count the number of
\* games whose instant shifted by the offset is inside the inclusive window
\* of the weekday of the shifted instant, and as viewable_dates the dates of
\* those games in schedule order; Monday 23:00Z counts 1 at offset -5 and 0
\* at offset +9, Monday 02:00Z at -5 is judged as Sunday 21:00
C11_CountsLocalWindow ==
    \A e \in Evaluations :
        LET schedule == e.snapshot[e.result[1]]
            offset == agg.timezone_offset
            inside == SelectSeq(schedule, LAMBDA g : InLocalWindow(g[1], offset))
        IN  /\ e.result[2] = Len(inside)
            /\ e.result[3] = [i \in 1..Len(inside) |-> inside[i][2]]
            /\ (schedule = ParseText(Text("object", TRUE, << GameMonNight >>))
                    /\ offset = -5) => e.result[2] = 1
            /\ (schedule = ParseText(Text("object", TRUE, << GameMonNight >>))
                    /\ offset = 9) => e.result[2] = 0
            /\ (schedule = ParseText(Text("object", TRUE, << GameMonEarly >>))
                    /\ offset = -5) => e.result[2] = 1

\* Sunday 02:00Z and Monday 23:00Z evaluated at offset -3: the first is
\* Saturday 23:00 local and counts, the second is Monday 20:00 and counts
C11_Witness ==
    \E e \in Evaluations :
        /\ agg.timezone_offset = -3
        /\ e.snapshot[e.result[1]] =
              ParseText(Text("object", TRUE, << GameSunEarly, GameMonNight >>))
        /\ e.result[2] = 2
        /\ e.result[3] = << 13, 7 >>

\* a record the parser keeps: regular season, a start time that parses, a
\* calendar date strictly after the date fixed at construction
Retained(game) ==
    /\ game.gameType = 2
    /\ IsoParses(game.startTimeUTC)
    /\ game.startTimeUTC[1] > current_date

\* C12: the schedule stored for a payload is exactly the subsequence, in
\* payload order, of the regular-season games whose start time parses and
\* whose date is strictly after the construction date; every other record
\* is skipped and the call does not fail
C12_StoresRetainedSubsequence ==
    \A w \in DOMAIN th :
        (w.pool = "call" /\ th[w].json_data.kind = "object")
        => /\ th[w].pc # "raised"
           /\ th[w].pc = "returned" =>
                LET kept == SelectSeq(th[w].games, Retained)
                IN  /\ w.team \in DOMAIN cache
                    /\ cache[w.team] =
                          [i \in 1..Len(kept) |->
                              << IsoInstant(kept[i].startTimeUTC), kept[i].startTimeUTC[1] >>]
                    /\ th[w].ret = cache[w.team]

\* a payload of a game dated today followed by a future regular-season
\* game was stored as the one future game
C12_Witness ==
    \E w \in DOMAIN th :
        /\ w.pool = "call" /\ th[w].pc = "returned"
        /\ th[w].games = << GameToday, GameSatEve >>
        /\ cache[w.team] = << << IsoInstant(GameSatEve.startTimeUTC), 12 >> >>

\* C13: every ranking returned by the ranker is sorted by viewable_count
\* in non-increasing order, whatever the completion order of the team tasks
C13_RankingSortedDescending ==
    \A id \in DOMAIN rank :
        rank[id].pc = "returned"
        => \A i, j \in 1..Len(rank[id].ranking) :
              i < j => rank[id].ranking[i][2] >= rank[id].ranking[j][2]

\* a call whose results were collected in ascending order of count returned
\* them in descending order
C13_Witness ==
    \E id \in DOMAIN rank :
        /\ rank[id].pc = "returned"
        /\ Len(rank[id].team_rankings) >= 2
        /\ rank[id].team_rankings[1][2] < rank[id].team_rankings[2][2]
        /\ rank[id].ranking[1][2] > rank[id].ranking[Len(rank[id].ranking)][2]

\* C14: when no team evaluation failed, the ranking holds exactly one
\* entry for every roster team; a team whose schedule retains no game is
\* present with count 0 and no dates, after every team with a positive
\* count
C14_EveryTeamRanked ==
    \A id \in DOMAIN rank :
        (rank[id].pc = "returned" /\ rank[id].reported = {})
        => LET ranking == rank[id].ranking
           IN  /\ RankedTeams(ranking) = Teams
               /\ NoDuplicates(ranking)
               /\ \A i \in 1..Len(ranking) :
                     /\ ranking[i][1] \in DOMAIN cache
                     /\ cache[ranking[i][1]] = << >>
                          => /\ ranking[i][2] = 0
                             /\ ranking[i][3] = << >>
                             /\ \A j \in 1..Len(ranking) :
                                   ranking[j][2] > 0 => j < i

\* on a cold cache a team whose fetch failed was collected first, and the
\* ranking returned has it last with count 0, after a team with games
C14_Witness ==
    \E id \in DOMAIN rank :
        /\ rank[id].pc = "returned" /\ rank[id].reported = {}
        /\ agg.snapshot = ColdCache
        /\ Len(rank[id].ranking) = NumTeams
        /\ rank[id].team_rankings[1][2] = 0
        /\ cache[rank[id].team_rankings[1][1]] = << >>
        /\ rank[id].ranking[NumTeams] = rank[id].team_rankings[1]
        /\ rank[id].ranking[1][2] > 0

\* C15: the leaderboard entry of an offset holds exactly the first
\* min(max(top_n, 0), length) entries of that offset's ranking, each with
\* its count, so every team left out has a count less than or equal to the
\* count of every team kept
C15_EntryIsRankingPrefix ==
    [][\A id \in DOMAIN rank :
          (rank[id].owner = "tz" /\ rank[id].pc = "returned" /\ id \notin DOMAIN rank')
          => LET ranking == rank[id].ranking
                 k == Min(Max(agg.top_n_teams, 0), Len(ranking))
                 label == timezone_key(rank[id].timezone_offset)
             IN  /\ label \in DOMAIN agg'.timezone_analysis
                 /\ DOMAIN agg'.timezone_analysis[label] = {ranking[i][1] : i \in 1..k}
                 /\ \A i \in 1..k :
                       agg'.timezone_analysis[label][ranking[i][1]] = ranking[i][2]
                 /\ \A i \in 1..k : \A j \in (k + 1)..Len(ranking) :
                       ranking[j][2] <= ranking[i][2]]_vars

\* with top_n 1, the entry UTC-12 holds the one team that leads a ranking
\* of all the roster, and the entry UTC-11 is about to be made from a
\* ranking of two teams with different counts
C15_Witness ==
    /\ agg.top_n_teams = 1
    /\ "UTC-12" \in DOMAIN agg.timezone_analysis
    /\ Cardinality(DOMAIN agg.timezone_analysis["UTC-12"]) = 1
    /\ -11 \in DOMAIN rank
    /\ rank[-11].pc = "returned"
    /\ Len(rank[-11].ranking) = NumTeams
    /\ rank[-11].ranking[1][2] > rank[-11].ranking[NumTeams][2]
    /\ rank[-11].team_data = [t \in {rank[-11].ranking[1][1]} |-> rank[-11].ranking[1][2]]

\* the position of a team in a list of results
PositionOf(team, results) == CHOOSE i \in 1..Len(results) : results[i][1] = team

\* C16: the sort of the ranker is stable: two teams with equal counts stand
\* in the returned ranking in the relative order in which their results
\* stood in the list collected before the sort
C16_SortStable ==
    \A id \in DOMAIN rank :
        rank[id].pc = "returned"
        => LET collected == rank[id].team_rankings
               ranking == rank[id].ranking
           IN  /\ Len(ranking) = Len(collected)
               /\ \A i, j \in 1..Len(collected) :
                     (i < j /\ collected[i][2] = collected[j][2])
                     => /\ \E p \in 1..Len(ranking) : ranking[p] = collected[i]
                        /\ \E q \in 1..Len(ranking) : ranking[q] = collected[j]
                        /\ PositionOf(collected[i][1], ranking)
                              < PositionOf(collected[j][1], ranking)

\* two teams with equal counts were collected in the reverse of roster
\* order and the returned ranking keeps them in that order
C16_Witness ==
    \E id \in DOMAIN rank :
        /\ rank[id].pc = "returned"
        /\ Len(rank[id].team_rankings) = NumTeams
        /\ rank[id].team_rankings[1][2] = rank[id].team_rankings[2][2]
        /\ TeamIndex(rank[id].team_rankings[1][1]) > TeamIndex(rank[id].team_rankings[2][1])
        /\ PositionOf(rank[id].team_rankings[1][1], rank[id].ranking)
              < PositionOf(rank[id].team_rankings[2][1], rank[id].ranking)

\* C17: in a run of main, once warm_cache has returned normally the cache
\* holds an entry for every roster team, and from then on no request is
\* sent: every call of get_team_schedule_cached is answered from the cache
C17_WarmedThenNoRequests ==
    [][(agg.entry = "main" /\ agg.pc \in {"timezones", "done", "printed"})
          => /\ DOMAIN cache = Teams
             /\ requests' = requests
             /\ \A w \in DOMAIN th' : th'[w].pc \notin {"fetch", "inflight"}]_vars

\* a run of main has returned its leaderboard after warm_cache sent a
\* request for every team
C17_Witness ==
    /\ agg.entry = "main" /\ agg.pc = "done"
    /\ Len(agg.returned) = 1
    /\ \A t \in Teams : requests[t] = 1
    /\ DOMAIN agg.returned[1].snapshot = Teams

C19_LockNotHeldOverFetch ==
    /\ cache_lock # NoThread
          => /\ cache_lock \in DOMAIN th
             /\ th[cache_lock].pc \in {"locked_check", "locked_store"}
             /\ ENABLED (CheckHit(cache_lock) \/ CheckMiss(cache_lock) \/ Store(cache_lock))
    /\ \A w \in DOMAIN th :
          th[w].pc \in {"fetch", "inflight", "loop"} => cache_lock # w
    /\ \A w \in DOMAIN th :
          /\ (th[w].pc = "call" /\ cache_lock = NoThread) => ENABLED CheckAcquire(w)
          /\ (th[w].pc = "locked_check" /\ w.team \in DOMAIN cache) => ENABLED CheckHit(w)

\* a caller of the cached team is inside its presence check while the
\* request of another team's caller is in flight
C19_Witness ==
    \E w, v \in DOMAIN th :
        /\ th[v].pc = "inflight" /\ v.team # w.team
        /\ th[w].pc = "locked_check" /\ cache_lock = w
        /\ w.team \in DOMAIN cache

\* the label of every offset of -12..12, by offset
LabelsByOffset ==
    << "UTC-12", "UTC-11", "UTC-10", "UTC-9", "UTC-8", "UTC-7", "UTC-6", "UTC-5",
       "UTC-4", "UTC-3", "UTC-2", "UTC-1", "UTC+0", "UTC+1", "UTC+2", "UTC+3",
       "UTC+4", "UTC+5", "UTC+6", "UTC+7", "UTC+8", "UTC+9", "UTC+10", "UTC+11",
       "UTC+12" >>

\* the offsets whose timezone task the aggregator has collected
EnteredOffsets ==
    IF agg.entry \in {"main", "generate"}
    THEN {timezone_range[i] : i \in 1..(agg.next - 1)} \ DOMAIN rank
    ELSE {}

\* C20: the key of every offset o of -12..12 is "UTC", a sign that is
\* always there and the unpadded magnitude (UTC+0 for 0); distinct offsets
\* have distinct keys; the number the summary's sort key reads back from
\* the key is o, and the summary's sorted keys are in offset order
C20_LabelRoundTrip ==
    /\ \A o \in EnteredOffsets :
          /\ o \in TzFirst..TzLast
          /\ LabelsByOffset[o - TzFirst + 1] \in DOMAIN agg.timezone_analysis
    /\ \A k \in DOMAIN agg.timezone_analysis :
          /\ timezone_sort_key(k) \in EnteredOffsets
          /\ k = LabelsByOffset[timezone_sort_key(k) - TzFirst + 1]
    /\ Cardinality(DOMAIN agg.timezone_analysis) = Cardinality(EnteredOffsets)
    /\ agg.pc = "printed" => agg.sorted_timezones = LabelsByOffset

\* the summary of a run of main has put the 25 keys in order, UTC-12
\* first, UTC+0 in the middle and UTC+12 last
C20_Witness ==
    /\ agg.pc = "printed"
    /\ Len(agg.sorted_timezones) = 25
    /\ agg.sorted_timezones[1] = "UTC-12"
    /\ agg.sorted_timezones[13] = "UTC+0"
    /\ agg.sorted_timezones[25] = "UTC+12"
    /\ timezone_sort_key(agg.sorted_timezones[1]) = -12

====
